---- MODULE Spec2Model ----
(***************************************************************************)
(* Batch gradient descent for least squares, as programmed in the notebook *)
(* "Lectures/Supervised Learning/6. Gradient Descent - Complete.ipynb"     *)
(* (code cell 589e77c3), run in a notebook kernel whose global names       *)
(* persist from one execution of the cell to the next.                     *)
(*                                                                         *)
(* Real numbers are exact rationals <<numerator, denominator>> with a      *)
(* positive denominator, in lowest terms.  A 2x1 column vector is a pair   *)
(* of rationals.  The design matrix is a sequence of integer rows          *)
(* <<1, x>> (cell 416391b3: a column of ones and one feature column); the  *)
(* target is a sequence of integers of the same length.                    *)
(***************************************************************************)
EXTENDS Integers, Sequences, FiniteSets, TLC

VARIABLES
    X,              \* design matrix (kernel global, set by cell 416391b3)
    y,              \* target vector (kernel global, set by cell 416391b3)
    alpha,          \* learning rate
    tol,            \* tolerance
    max_iter,       \* iteration limit
    beta_star,      \* current estimate
    beta_star_new,  \* proposed update
    beta_hat,       \* result; <<>> while the name is not bound in the kernel
    i,              \* loop variable; NoInt while the name is not bound
    it,             \* position of the range(max_iter) iterator
    pc,             \* "idle", "loop", "report", "done"
    out,            \* what the current execution of the cell has printed
    exit,           \* how the loop of the current execution was left
    hist,           \* one record per executed loop pass of the current execution
    runs_left       \* executions of the cell still to be started

vars == <<X, y, alpha, tol, max_iter, beta_star, beta_star_new, beta_hat, i, it,
          pc, out, exit, hist, runs_left>>

-----------------------------------------------------------------------------
(* Bounds of the model. *)

MaxIter == 3
MaxRuns == 2
MaxRows == 2

-----------------------------------------------------------------------------
(* Exact rational arithmetic. *)

NoInt == -1
Unbound == <<>>

Abs(a) == IF a < 0 THEN -a ELSE a

RECURSIVE Gcd(_, _)
Gcd(a, b) == IF b = 0 THEN a ELSE Gcd(b, a % b)

Rat(n, d) ==
    LET s == IF d < 0 THEN -1 ELSE 1
        g == Gcd(Abs(n), Abs(d))
    IN  <<(s * n) \div g, (s * d) \div g>>

Zero == <<0, 1>>
One == <<1, 1>>
Two == <<2, 1>>
RInt(k) == <<k, 1>>

RAdd(a, b) ==
    LET g == Gcd(a[2], b[2])
    IN  Rat(a[1] * (b[2] \div g) + b[1] * (a[2] \div g), (a[2] \div g) * b[2])
RNeg(a) == <<-a[1], a[2]>>
RSub(a, b) == RAdd(a, RNeg(b))
RMul(a, b) ==
    LET g1 == Gcd(Abs(a[1]), b[2])
        g2 == Gcd(Abs(b[1]), a[2])
    IN  <<(a[1] \div g1) * (b[1] \div g2), (a[2] \div g2) * (b[2] \div g1)>>
RDiv(a, b) == RMul(a, Rat(b[2], b[1]))
RSq(a) == <<a[1] * a[1], a[2] * a[2]>>
RAbs(a) == <<Abs(a[1]), a[2]>>

\* p/q < r/s for q > 0 and s > 0: compare the integer parts, then the
\* reciprocals of the fractional parts (no product is formed)
RECURSIVE FracLt(_, _, _, _)
FracLt(p, q, r, s) ==
    IF p \div q # r \div s THEN p \div q < r \div s
    ELSE IF r % s = 0 THEN FALSE
    ELSE IF p % q = 0 THEN TRUE
    ELSE FracLt(s, r % s, q, p % q)

RLt(a, b) == FracLt(a[1], a[2], b[1], b[2])
RLe(a, b) == ~RLt(b, a)

-----------------------------------------------------------------------------
(* The numerical steps of the loop body. *)

\* y.reshape(-1,1) broadcast against the n x 1 array X.dot(beta_star): a
\* target of length 1 is repeated for every row
Broadcast(yy, k) == IF Len(yy) = 1 THEN yy[1] ELSE yy[k]

\* The shapes numpy accepts in line 174: the subtraction broadcasts (n,1)
\* with (k,1) when k = n, k = 1 or n = 1, and X.transpose().dot(.) then
\* needs the result to have n rows; every other pair raises ValueError.
Conformable_Strict(XX, yy) == Len(yy) = Len(XX)
Conformable(XX, yy) == Len(yy) = Len(XX) \/ Len(yy) = 1

\* X.dot(beta_star) - y.reshape(-1,1), row k
Residual_NoTarget(XX, yy, b, k) ==
    RAdd(RMul(RInt(XX[k][1]), b[1]), RMul(RInt(XX[k][2]), b[2]))
Residual(XX, yy, b, k) ==
    RSub(RAdd(RMul(RInt(XX[k][1]), b[1]), RMul(RInt(XX[k][2]), b[2])),
         RInt(Broadcast(yy, k)))

\* X.transpose().dot(r), component j: the sum over the rows 1..k
RECURSIVE XtDot(_, _, _, _, _)
XtDot(XX, yy, b, j, k) ==
    IF k = 0 THEN Zero
    ELSE RAdd(XtDot(XX, yy, b, j, k - 1),
              RMul(RInt(XX[k][j]), Residual(XX, yy, b, k)))

\* (2/len(X)) * X.transpose().dot(X.dot(beta_star) - y.reshape(-1,1))
Gradient_NoMean(XX, yy, b) ==
    <<RMul(Two, XtDot(XX, yy, b, 1, Len(XX))),
      RMul(Two, XtDot(XX, yy, b, 2, Len(XX)))>>
Gradient(XX, yy, b) ==
    LET c == Rat(2, Len(XX))
    IN  <<RMul(c, XtDot(XX, yy, b, 1, Len(XX))),
          RMul(c, XtDot(XX, yy, b, 2, Len(XX)))>>

\* beta_star - alpha*(2/len(X))*X.transpose().dot(...)
Update_Ascent(XX, yy, a, b) ==
    LET g == Gradient(XX, yy, b)
    IN  <<RAdd(b[1], RMul(a, g[1])), RAdd(b[2], RMul(a, g[2]))>>
Update(XX, yy, a, b) ==
    LET g == Gradient(XX, yy, b)
    IN  <<RSub(b[1], RMul(a, g[1])), RSub(b[2], RMul(a, g[2]))>>

\* np.sum(np.power(beta_star_new - beta_star,2))/2
Stat_FirstOnly(new, b) == RMul(RSq(RSub(new[1], b[1])), <<1, 2>>)
Stat(new, b) ==
    RMul(RAdd(RSq(RSub(new[1], b[1])), RSq(RSub(new[2], b[2]))), <<1, 2>>)

\* np.sum(np.power(beta_star_new - beta_star,2))/2 < tol
BelowTol_OrEqual(new, b, t) == RLe(Stat(new, b), t)
BelowTol(new, b, t) == RLt(Stat(new, b), t)

\* beta_hat = beta_star_new
Result_Previous(new, b) == b
Result(new, b) == new

\* beta_star = beta_star_new
NextEstimate_Keep(new, b) == b
NextEstimate(new, b) == new

\* range(max_iter) yields another value
HasNext_Inclusive(pos, m) == pos <= m
HasNext(pos, m) == pos < m

\* Where control goes after the pass at iterator position pos: break on
\* convergence, otherwise the next pass or the end of the for statement.
AfterPass_NoBreak(conv, pos, m) ==
    IF HasNext(pos + 1, m) THEN "loop" ELSE "report"
AfterPass(conv, pos, m) ==
    IF conv THEN "report"
    ELSE IF HasNext(pos + 1, m) THEN "loop" ELSE "report"

\* if i + 1 == max_iter
AtCap_Early(k, m) == k + 2 = m
AtCap(k, m) == k + 1 = m

-----------------------------------------------------------------------------
(* The loss being minimised and the closed-form solution it is compared    *)
(* with.                                                                   *)

\* the sum over the rows 1..k of the squared residuals
RECURSIVE SumSqResiduals(_, _, _, _)
SumSqResiduals(XX, yy, b, k) ==
    IF k = 0 THEN Zero
    ELSE RAdd(SumSqResiduals(XX, yy, b, k - 1), RSq(Residual(XX, yy, b, k)))

\* the mean squared error (1/n) * sum (y - X beta)^2
MSE(XX, yy, b) == RMul(Rat(1, Len(XX)), SumSqResiduals(XX, yy, b, Len(XX)))

\* X.transpose().dot(X), entry (j, l): the sum over the rows 1..k
RECURSIVE Gram(_, _, _, _)
Gram(XX, j, l, k) ==
    IF k = 0 THEN 0 ELSE Gram(XX, j, l, k - 1) + XX[k][j] * XX[k][l]

\* X.transpose().dot(y), component j: the sum over the rows 1..k
RECURSIVE XtY(_, _, _, _)
XtY(XX, yy, j, k) ==
    IF k = 0 THEN 0 ELSE XtY(XX, yy, j, k - 1) + XX[k][j] * yy[k]

GramDet(XX) ==
    LET n == Len(XX)
    IN  Gram(XX, 1, 1, n) * Gram(XX, 2, 2, n) - Gram(XX, 1, 2, n) * Gram(XX, 1, 2, n)
GramTrace(XX) == Gram(XX, 1, 1, Len(XX)) + Gram(XX, 2, 2, Len(XX))

\* np.linalg.inv(X.transpose().dot(X)).dot(X.transpose()).dot(y), for an
\* invertible 2x2 matrix X^T X (inverse = adjugate / determinant)
NormalEquation(XX, yy) ==
    LET n == Len(XX)
        p == Gram(XX, 1, 1, n)
        q == Gram(XX, 1, 2, n)
        r == Gram(XX, 2, 2, n)
        v1 == XtY(XX, yy, 1, n)
        v2 == XtY(XX, yy, 2, n)
    IN  <<Rat(r * v1 - q * v2, GramDet(XX)), Rat(p * v2 - q * v1, GramDet(XX))>>

\* a * lambda_max(X^T X) < c for a rational a > 0 and an integer c: the
\* largest eigenvalue of a symmetric 2x2 matrix is below L iff L exceeds
\* half the trace and the characteristic polynomial is positive at L
NormTimesBelow(XX, a, c) ==
    LET tr == GramTrace(XX)
        dt == GramDet(XX)
    IN  /\ 2 * c * a[2] > tr * a[1]
        /\ c * c * a[2] * a[2] - tr * c * a[1] * a[2] + dt * a[1] * a[1] > 0

\* a * lambda_max(X^T X) > c for a rational a > 0 and an integer c: the
\* largest eigenvalue is at most L iff L is at least half the trace and the
\* characteristic polynomial is not negative at L
NormTimesAbove(XX, a, c) ==
    LET tr == GramTrace(XX)
        dt == GramDet(XX)
    IN  ~ /\ 2 * c * a[2] >= tr * a[1]
          /\ c * c * a[2] * a[2] - tr * c * a[1] * a[2] + dt * a[1] * a[1] >= 0

\* a * lambda > c for every non-zero eigenvalue lambda of X^T X, for a
\* rational a > 0 and an integer c: of a singular X^T X the only non-zero
\* eigenvalue is the trace; otherwise the smallest eigenvalue exceeds L iff
\* L is below half the trace and the characteristic polynomial is positive
\* at L
AllEigenTimesAbove(XX, a, c) ==
    LET tr == GramTrace(XX)
        dt == GramDet(XX)
    IN  IF dt = 0
        THEN a[1] * tr > c * a[2]
        ELSE /\ 2 * c * a[2] < tr * a[1]
             /\ c * c * a[2] * a[2] - tr * c * a[1] * a[2] + dt * a[1] * a[1] > 0

\* the largest absolute row sum of the inverse of X^T X
InverseRowSum(XX) ==
    LET n == Len(XX)
        p == Gram(XX, 1, 1, n)
        q == Abs(Gram(XX, 1, 2, n))
        r == Gram(XX, 2, 2, n)
    IN  Rat((IF p > r THEN p ELSE r) + q, Abs(GramDet(XX)))

-----------------------------------------------------------------------------
(* Inputs. *)

XVals == {0, 1}
YVals == {0, 1}
Rows == {<<1, x>> : x \in XVals}

Matrices == UNION {[1..n -> Rows] : n \in 1..MaxRows}
Targets(n) == [1..n -> YVals]

Alphas == {<<-1, 4>>, Zero, <<1, 4>>, <<3, 4>>, One}
Tols == {<<-1, 8>>, Zero, <<1, 8>>, Two}
\* np.random.random draws from [0, 1)
Guesses == {<<p, q>> : p \in {Zero, <<1, 2>>}, q \in {Zero, <<1, 2>>}}

NoOutput == [notice |-> 0, iters |-> NoInt, beta |-> Unbound, error |-> FALSE]

-----------------------------------------------------------------------------
(* The kernel after the data cell 416391b3 has run and before cell         *)
(* 589e77c3 has been executed for the first time.                          *)

Fresh ==
    /\ alpha = Unbound
    /\ tol = Unbound
    /\ max_iter = NoInt
    /\ beta_star = Unbound
    /\ beta_star_new = Unbound
    /\ beta_hat = Unbound
    /\ i = NoInt
    /\ it = 0
    /\ pc = "idle"
    /\ out = NoOutput
    /\ exit = "none"
    /\ hist = <<>>

\* A fresh kernel in which the cell is executed once.
Init ==
    /\ X \in Matrices
    /\ y \in Targets(Len(X))
    /\ Fresh
    /\ runs_left = 1

\* A fresh kernel in which the cell is executed up to MaxRuns times on the
\* same one-row data.
InitRerun ==
    /\ X = <<<<1, 1>>>>
    /\ y \in Targets(Len(X))
    /\ Fresh
    /\ runs_left = MaxRuns

\* A fresh kernel whose target has another length than X has rows, in which
\* the cell is executed once.
InitMismatch ==
    /\ X \in Matrices
    /\ y \in UNION {Targets(k) : k \in (1..MaxRows) \ {Len(X)}}
    /\ Fresh
    /\ runs_left = 1

\* Lines 161-170 and the start of the for statement: the cell is executed
\* (again); the four assignments, then range(max_iter) is created.
Setup(a, t, m, b0) ==
    /\ pc \in {"idle", "done", "error"}
    /\ runs_left > 0
    /\ alpha' = a
    /\ beta_star' = b0
    /\ tol' = t
    /\ max_iter' = m
    /\ it' = 0
    /\ out' = NoOutput
    /\ hist' = <<>>
    /\ runs_left' = runs_left - 1
    /\ IF HasNext(0, m)
       THEN pc' = "loop" /\ exit' = "none"
       ELSE pc' = "report" /\ exit' = "empty"
    /\ UNCHANGED <<X, y, beta_star_new, beta_hat, i>>

\* One pass of the loop body, lines 172-186, and the step of the for
\* statement that follows it.
LoopBody ==
    IF ~Conformable(X, y)
    THEN \* line 174 raises ValueError; the execution of the cell ends
         /\ i' = it
         /\ it' = it + 1
         /\ pc' = "error"
         /\ exit' = "error"
         /\ out' = [out EXCEPT !.error = TRUE]
         /\ UNCHANGED <<beta_star, beta_star_new, beta_hat, hist>>
    ELSE
    LET new == Update(X, y, alpha, beta_star)
        conv == BelowTol(new, beta_star, tol)
        capped == ~conv /\ AtCap(it, max_iter)
    IN  /\ i' = it
        /\ it' = it + 1
        /\ beta_star_new' = new
        /\ hist' = Append(hist, [b |-> beta_star, new |-> new])
        /\ IF conv
           THEN /\ beta_hat' = Result(new, beta_star)
                /\ UNCHANGED beta_star
           ELSE /\ beta_star' = NextEstimate(new, beta_star)
                /\ UNCHANGED beta_hat
        /\ out' = IF capped THEN [out EXCEPT !.notice = @ + 1] ELSE out
        /\ pc' = AfterPass(conv, it, max_iter)
        /\ exit' = IF conv THEN "CONVERGED"
                   ELSE IF HasNext(it + 1, max_iter) THEN "none" ELSE "EXHAUSTED"

\* The loop body with the learning rate redrawn in every pass.
Iterate_NewRate ==
    /\ pc = "loop"
    /\ HasNext(it, max_iter)
    /\ LoopBody
    /\ alpha' = RMul(alpha, <<1, 2>>)
    /\ UNCHANGED <<X, y, tol, max_iter, runs_left>>

Iterate ==
    /\ pc = "loop"
    /\ HasNext(it, max_iter)
    /\ LoopBody
    /\ UNCHANGED <<X, y, alpha, tol, max_iter, runs_left>>

\* Lines 188-190: the three print statements after the loop.
Report ==
    /\ pc = "report"
    /\ IF i = NoInt
       THEN out' = [out EXCEPT !.error = TRUE]
       ELSE IF beta_hat = Unbound
            THEN out' = [out EXCEPT !.iters = i, !.error = TRUE]
            ELSE out' = [out EXCEPT !.iters = i, !.beta = beta_hat]
    /\ pc' = "done"
    /\ UNCHANGED <<X, y, alpha, tol, max_iter, beta_star, beta_star_new,
                   beta_hat, i, it, exit, hist, runs_left>>

Next ==
    \/ \E a \in Alphas, t \in Tols, m \in 0..MaxIter, b0 \in Guesses :
          Setup(a, t, m, b0)
    \/ Iterate
    \/ Report

Spec == Init /\ [][Next]_vars

SpecRerun == InitRerun /\ [][Next]_vars

SpecMismatch == InitMismatch /\ [][Next]_vars

\* The cell executed up to MaxRuns times on the same one-row data, each
\* time with max_iter set to 0 or 1.
NextBrief ==
    \/ \E a \in Alphas, t \in Tols, m \in 0..1, b0 \in Guesses :
          Setup(a, t, m, b0)
    \/ Iterate
    \/ Report

SpecRerunBrief == InitRerun /\ [][NextBrief]_vars

-----------------------------------------------------------------------------
(* Properties. *)

Running == pc = "loop"
Done == pc \in {"report", "done"}
Passes == Len(hist)

\* the convergence test succeeded in pass k of the current execution
PassBelowTol(k) == BelowTol(hist[k].new, hist[k].b, tol)

\* C1: with M >= 1 the loop body is executed at most M times: every step
\* taken while RUNNING is one more pass, a pass is only started with fewer
\* than M passes made, and once M passes are made the run is DONE.
C1_CapInv ==
    (pc # "idle" /\ max_iter >= 1) =>
        /\ Passes <= max_iter
        /\ Running => Passes < max_iter
        /\ Passes = max_iter => Done
C1_HardCap ==
    /\ []C1_CapInv
    /\ [][Running => (Passes' = Passes + 1 /\ (Running' \/ Done'))]_vars
    /\ [][Passes' # Passes => (Running \/ Passes' = 0)]_vars
C1_Witness == pc = "done" /\ max_iter >= 2 /\ Passes = max_iter

\* C2: RUNNING is left by exactly one of CONVERGED (some pass had d < tol)
\* and EXHAUSTED (M passes, none with d < tol); DONE is terminal: within the
\* same run no further pass is made and the estimate and result are kept.
C2_ExitInv ==
    /\ Running => exit = "none"
    /\ (Done /\ max_iter >= 1) =>
          /\ exit \in {"CONVERGED", "EXHAUSTED"}
          /\ exit = "CONVERGED" <=> \E k \in 1..Passes : PassBelowTol(k)
          /\ exit = "EXHAUSTED" <=>
                (Passes = max_iter /\ \A k \in 1..Passes : ~PassBelowTol(k))
C2_TwoStates ==
    /\ []C2_ExitInv
    /\ [][(Done /\ runs_left' = runs_left) =>
            (Done' /\ UNCHANGED <<hist, beta_star, beta_star_new, beta_hat, exit>>)]_vars
C2_Witness == pc = "done" /\ exit = "CONVERGED" /\ Passes >= 2 /\ Passes < max_iter

\* C3: a run that is exhausted still reports an estimate, the beta_new of
\* its last pass.
C3_ExhaustedReportsLast ==
    (pc = "done" /\ exit = "EXHAUSTED") =>
        (~out.error /\ out.beta = hist[Passes].new)

C5_CountIsPasses ==
    (pc = "done" /\ max_iter >= 1) => out.iters = Passes

\* C6: the notice is printed iff no pass had d < tol; at most once, only in
\* the pass with i + 1 = M, never in a run that converged.
C6_NoticeInv ==
    /\ out.notice <= 1
    /\ exit = "CONVERGED" => out.notice = 0
    /\ (Done /\ max_iter >= 1) =>
          (out.notice = 1 <=> \A k \in 1..Passes : ~PassBelowTol(k))
C6_Notice ==
    /\ []C6_NoticeInv
    /\ [][out'.notice > out.notice => (i' + 1 = max_iter /\ Passes' = max_iter)]_vars
C6_Witness ==
    /\ pc = "done" /\ exit = "CONVERGED" /\ Passes = max_iter /\ max_iter >= 2

\* C7: the result a run with M >= 1 reports was computed by that run, never
\* left behind by an earlier one.
C7_ResultIsOwn ==
    (pc = "done" /\ max_iter >= 1 /\ ~out.error) =>
        \E k \in 1..Passes : out.beta = hist[k].new

\* C8: within a run X, y, the learning rate, the tolerance and the
\* iteration limit keep the values they had when the loop started.
C8_InputsKept ==
    [][runs_left' = runs_left => UNCHANGED <<X, y, alpha, tol, max_iter>>]_vars
C8_Witness == pc = "done" /\ Passes >= 2 /\ hist[1].b # beta_star

\* the mean squared error does not increase in pass k
MseNotIncreased(k) == RLe(MSE(X, y, hist[k].new), MSE(X, y, hist[k].b))

\* C9 as stated: with 0 < alpha < 2/||X^T X|| the mean squared error at
\* the proposed update of a pass is at most that at the estimate it started
\* from.
C9_DescentBelowTwoOverNorm ==
    \A k \in 1..Passes :
        (RLt(Zero, alpha) /\ NormTimesBelow(X, alpha, 2)) => MseNotIncreased(k)

\* C9 amended: with 0 < alpha < 2/||(2/n) X^T X|| = n/||X^T X|| the mean
\* squared error at the proposed update of a pass is at most that at the
\* estimate it started from.
C9_DescentBelowNOverNorm ==
    \A k \in 1..Passes :
        (RLt(Zero, alpha) /\ NormTimesBelow(X, alpha, Len(X))) => MseNotIncreased(k)
C9_Witness ==
    /\ Passes >= 2
    /\ RLt(Zero, alpha) /\ NormTimesBelow(X, alpha, Len(X))
    /\ ~NormTimesBelow(X, alpha, 1)
    /\ \A k \in 1..Passes : RLt(MSE(X, y, hist[k].new), MSE(X, y, hist[k].b))

\* the distance of the result from the normal-equation solution, component j
ResultError(j) == RAbs(RSub(beta_hat[j], NormalEquation(X, y)[j]))

\* C10 as stated: with X^T X invertible, the result of a run that ends
\* CONVERGED is within 1e-2 of the normal-equation solution in every
\* component.
C10_WithinHundredth ==
    (exit = "CONVERGED" /\ GramDet(X) # 0) =>
        \A j \in 1..2 : RLe(ResultError(j), <<1, 100>>)

\* C10 amended: with X^T X invertible and alpha # 0, the result of a run
\* that ends CONVERGED is within
\*   sqrt(2 tol) * (1 + n * ||(X^T X)^-1||_inf / (2 |alpha|))
\* of the normal-equation solution in every component.
C10_WithinTolBound ==
    (exit = "CONVERGED" /\ GramDet(X) # 0 /\ alpha # Zero) =>
        LET c == RAdd(One, RDiv(RMul(RInt(Len(X)), InverseRowSum(X)),
                                RMul(Two, RAbs(alpha))))
        IN  \A j \in 1..2 :
                RLt(RSq(ResultError(j)), RMul(RMul(Two, tol), RSq(c)))
C10_Witness ==
    /\ exit = "CONVERGED" /\ GramDet(X) # 0 /\ RLt(Zero, alpha)
    /\ Passes >= 2
    /\ \E j \in 1..2 : RLt(<<1, 100>>, ResultError(j))

\* C11: a run whose target has another length than X has rows ends in an
\* error in its first pass, before any estimate is produced; the target is
\* never broadcast.
C11_MismatchRaises ==
    (Len(y) # Len(X) /\ max_iter >= 1 /\ pc # "idle") =>
        /\ pc \in {"loop", "error"}
        /\ Passes = 0
        /\ beta_star_new = Unbound /\ beta_hat = Unbound

\* C12: a run started with a learning rate <= 0 or a tolerance <= 0 makes
\* no pass and leaves the loop neither CONVERGED nor EXHAUSTED.
C12_FailsFast ==
    (pc # "idle" /\ (RLe(alpha, Zero) \/ RLe(tol, Zero))) =>
        (Passes = 0 /\ exit \notin {"CONVERGED", "EXHAUSTED"})

\* the mean squared error does not decrease in pass k
MseNotDecreased(k) == RLe(MSE(X, y, hist[k].b), MSE(X, y, hist[k].new))

\* C13 as stated: a run with alpha <= 0 raises no error and does not end
\* CONVERGED.
C13_NeverConverged ==
    (pc # "idle" /\ RLe(alpha, Zero)) => (pc # "error" /\ exit # "CONVERGED")

\* C13 amended: a run with alpha <= 0 raises no error in the loop and does
\* not descend: with alpha = 0 and tol > 0 it ends CONVERGED in its first
\* pass with the initial guess as result; with alpha < 0 the mean squared
\* error never decreases from an estimate to the proposed update, and the
\* run ends CONVERGED or EXHAUSTED as the tolerance decides.
C13_NoErrorNoDescent ==
    (pc # "idle" /\ RLe(alpha, Zero)) =>
        /\ pc # "error" /\ exit # "error"
        /\ (Done /\ max_iter >= 1) => exit \in {"CONVERGED", "EXHAUSTED"}
        /\ (alpha = Zero /\ RLt(Zero, tol) /\ Passes >= 1) =>
              (exit = "CONVERGED" /\ Passes = 1 /\ beta_hat = hist[1].b)
        /\ RLt(alpha, Zero) => \A k \in 1..Passes : MseNotDecreased(k)
C13_Witness ==
    /\ pc = "done" /\ RLt(alpha, Zero) /\ exit = "CONVERGED" /\ Passes >= 1
    /\ \A k \in 1..Passes : RLt(MSE(X, y, hist[k].b), MSE(X, y, hist[k].new))

\* the squared Euclidean norm of a vector
NormSq(v) == RAdd(RSq(v[1]), RSq(v[2]))

\* the convergence statistic of pass k
PassStat(k) == Stat(hist[k].new, hist[k].b)

\* C14 as stated: with alpha above 2/lambda_max((2/n) X^T X) and an initial
\* guess that is not a minimiser, the estimate grows in every pass, no pass
\* has d < tol and the run makes all M passes and ends EXHAUSTED.
C14_LargeRateExhausts ==
    (Passes >= 1 /\ RLt(Zero, alpha) /\ NormTimesAbove(X, alpha, Len(X))
       /\ Gradient(X, y, hist[1].b) # <<Zero, Zero>>) =>
        /\ \A k \in 1..Passes : RLt(NormSq(hist[k].b), NormSq(hist[k].new))
        /\ exit # "CONVERGED"
        /\ Done => (exit = "EXHAUSTED" /\ Passes = max_iter)

\* C14 amended: with alpha above 2/lambda for every non-zero eigenvalue
\* lambda of (2/n) X^T X and an initial guess that is not a minimiser, the
\* convergence statistic grows strictly from each pass to the next, so
\* only the first pass can have d < tol: the run ends CONVERGED in its first
\* pass if d < tol there, and otherwise makes all M passes and ends
\* EXHAUSTED.
C14_UnstableStatGrows ==
    (Passes >= 1 /\ RLt(Zero, alpha) /\ AllEigenTimesAbove(X, alpha, Len(X))
       /\ Gradient(X, y, hist[1].b) # <<Zero, Zero>>) =>
        /\ \A k \in 1..(Passes - 1) : RLt(PassStat(k), PassStat(k + 1))
        /\ exit = "CONVERGED" => (Passes = 1 /\ PassBelowTol(1))
        /\ (Done /\ ~PassBelowTol(1)) => (exit = "EXHAUSTED" /\ Passes = max_iter)
C14_Witness ==
    /\ Passes >= 3 /\ RLt(Zero, alpha) /\ AllEigenTimesAbove(X, alpha, Len(X))
    /\ Gradient(X, y, hist[1].b) # <<Zero, Zero>>
    /\ exit = "EXHAUSTED" /\ RLt(Zero, tol) /\ Len(X) >= 2

\* beta_new - beta* of pass k
Step(k) == <<RSub(hist[k].new[1], hist[k].b[1]), RSub(hist[k].new[2], hist[k].b[2])>>

\* ||beta_updated - beta*|| < tol, the stopping rule of the notebook's
\* step 4 (for tol > 0 the norms compare as their squares do)
StepNormBelowTol(k) == RLt(Zero, tol) /\ RLt(NormSq(Step(k)), RSq(tol))

\* C15: the loop stops by convergence at exactly the first pass in which
\* the Euclidean norm of the change is below tol.
C15_StopsAtNormBelowTol ==
    (Done /\ max_iter >= 1) =>
        /\ exit = "CONVERGED" <=> \E k \in 1..Passes : StepNormBelowTol(k)
        /\ exit = "CONVERGED" =>
              (StepNormBelowTol(Passes) /\ \A k \in 1..(Passes - 1) : ~StepNormBelowTol(k))

\* component j of X^T X b - X^T y
NormalGap(XX, yy, b, j) ==
    RSub(RAdd(RMul(RInt(Gram(XX, j, 1, Len(XX))), b[1]),
              RMul(RInt(Gram(XX, j, 2, Len(XX))), b[2])),
         RInt(XtY(XX, yy, j, Len(XX))))

\* b - a * (2/n) * X^T (X b - y), through X^T X and X^T y
GradientStep(XX, yy, a, b) ==
    LET c == RMul(a, Rat(2, Len(XX)))
    IN  <<RSub(b[1], RMul(c, NormalGap(XX, yy, b, 1))),
          RSub(b[2], RMul(c, NormalGap(XX, yy, b, 2)))>>

\* C16: in every pass the proposed update is
\* beta* - alpha * (2/n) * X^T (X beta* - y), beta* being the estimate at the
\* start of the pass, with the one alpha of the run.
C16_UpdateFormula ==
    /\ \A k \in 1..Passes : hist[k].new = GradientStep(X, y, alpha, hist[k].b)
    /\ Passes >= 1 => beta_star_new = hist[Passes].new
    /\ \A k \in 1..(Passes - 1) : hist[k + 1].b = hist[k].new
C16_Witness ==
    /\ pc = "done" /\ Passes >= 2 /\ Len(X) >= 2
    /\ \A k \in 1..Passes : hist[k].new[1] # hist[k].b[1] /\ hist[k].new[2] # hist[k].b[2]

C18_ReplacedEveryPass == Passes >= 1 => beta_star = hist[Passes].new

\* C18 amended: beta* is replaced by the beta_new of the pass in every pass
\* that does not converge, is left as it is by the pass that converges, and
\* within a run is written by no other step.
C18_ReplacedUnlessConverged ==
    [][/\ (Passes' = Passes + 1 /\ exit' # "CONVERGED") =>
            beta_star' = hist'[Passes'].new
       /\ (Passes' = Passes + 1 /\ exit' = "CONVERGED") => beta_star' = beta_star
       /\ (runs_left' = runs_left /\ Passes' = Passes) => beta_star' = beta_star]_vars
C18_Witness ==
    /\ pc = "done" /\ exit = "CONVERGED" /\ Passes >= 2
    /\ beta_star = hist[Passes].b /\ beta_star # hist[Passes].new
    /\ beta_star # hist[1].b

\* T^k(b) for the update map T(b) = b - alpha*(2/n)*X^T(Xb - y)
RECURSIVE Iterated(_, _, _, _, _)
Iterated(XX, yy, a, b, k) ==
    IF k = 0 THEN b ELSE GradientStep(XX, yy, a, Iterated(XX, yy, a, b, k - 1))

\* the initial guess of the current run
InitialGuess == IF Passes = 0 THEN beta_star ELSE hist[1].b

\* C19: after k passes that did not converge beta* = T^k(b0); a run that
\* converges in the pass with index i has replaced beta* i times and its
\* result is T^(i+1)(b0); an exhausted run ends with beta* = T^M(b0).
C19_ExactIterates ==
    (pc \in {"loop", "report", "done"} /\ max_iter >= 1) =>
        /\ exit # "CONVERGED" => beta_star = Iterated(X, y, alpha, InitialGuess, Passes)
        /\ exit = "CONVERGED" =>
              /\ beta_star = Iterated(X, y, alpha, InitialGuess, Passes - 1)
              /\ i = Passes - 1
              /\ beta_hat = Iterated(X, y, alpha, InitialGuess, i + 1)
        /\ exit = "EXHAUSTED" => beta_star = Iterated(X, y, alpha, InitialGuess, max_iter)
C19_Witness ==
    /\ pc = "done" /\ exit = "CONVERGED" /\ Passes >= 3 /\ Len(X) >= 2
    /\ beta_hat # beta_star

\* C20: started where the gradient is zero, with tol > 0, the run ends
\* CONVERGED in its first pass with the initial guess as result and prints
\* no notice.
C20_StartAtStationary ==
    (Passes >= 1 /\ RLt(Zero, tol)
       /\ NormalGap(X, y, hist[1].b, 1) = Zero /\ NormalGap(X, y, hist[1].b, 2) = Zero) =>
        /\ exit = "CONVERGED" /\ Passes = 1 /\ i = 0
        /\ beta_hat = hist[1].b
        /\ out.notice = 0
        /\ pc = "done" => (~out.error /\ out.beta = hist[1].b)
C20_Witness ==
    /\ pc = "done" /\ Passes >= 1 /\ RLt(Zero, tol) /\ alpha # Zero
    /\ max_iter >= 2 /\ GramDet(X) # 0
    /\ NormalGap(X, y, hist[1].b, 1) = Zero /\ NormalGap(X, y, hist[1].b, 2) = Zero

\* the gradient (2/n) X^T (X b - y), through X^T X and X^T y
GradAt(XX, yy, b) ==
    <<RMul(Rat(2, Len(XX)), NormalGap(XX, yy, b, 1)),
      RMul(Rat(2, Len(XX)), NormalGap(XX, yy, b, 2))>>

\* alpha^2 * ||g||^2 with g the gradient at the estimate pass k started from
ScaledGradSq(k) == RMul(RSq(alpha), NormSq(GradAt(X, y, hist[k].b)))

StartedAtMinimiser ==
    /\ NormalGap(X, y, InitialGuess, 1) = Zero
    /\ NormalGap(X, y, InitialGuess, 2) = Zero

\* C22: with tol <= 0 no pass passes the convergence test, so a run with
\* M >= 1 makes exactly M passes, ends EXHAUSTED and prints the notice, even
\* when started at the exact minimiser.
C22_NonPositiveTolExhausts ==
    (pc \in {"loop", "report", "done"} /\ max_iter >= 1 /\ RLe(tol, Zero)) =>
        /\ \A k \in 1..Passes : RLe(Zero, PassStat(k)) /\ ~PassBelowTol(k)
        /\ exit # "CONVERGED"
        /\ beta_hat = Unbound
        /\ Running => (Passes < max_iter /\ out.notice = 0)
        /\ Done => (exit = "EXHAUSTED" /\ Passes = max_iter /\ out.notice = 1)
C22_Witness ==
    /\ pc = "done" /\ tol = Zero /\ max_iter >= 2 /\ exit = "EXHAUSTED"
    /\ StartedAtMinimiser /\ GramDet(X) # 0
    /\ alpha # Zero /\ out.notice = 1
    /\ \A k \in 1..Passes : PassStat(k) = Zero

\* C23: with max_iter = 0 no pass is made: beta_new, the result and the loop
\* counter keep whatever the kernel held before the run (nothing, in a fresh
\* kernel), no notice is printed, the run is neither CONVERGED nor EXHAUSTED,
\* and what it reports is an error or an earlier run's values.
C23_EmptyInv ==
    (pc # "idle" /\ max_iter = 0) =>
        /\ pc \in {"report", "done"}
        /\ Passes = 0 /\ it = 0
        /\ exit = "empty"
        /\ out.notice = 0
        /\ pc = "done" =>
              /\ out.error <=> (i = NoInt \/ beta_hat = Unbound)
              /\ ~out.error => (out.iters = i /\ out.beta = beta_hat)
C23_ZeroIterations ==
    /\ []C23_EmptyInv
    /\ [][max_iter' = 0 => UNCHANGED <<i, beta_hat, beta_star_new>>]_vars
C23_Witness ==
    /\ pc = "done" /\ max_iter = 0 /\ exit = "empty"
    /\ ~out.error /\ out.iters # NoInt /\ out.beta # Unbound
    /\ out.beta # beta_star

\* the characteristic polynomial of X^T X at a rational t
CharPoly(XX, t) ==
    RAdd(RSub(RSq(t), RMul(RInt(GramTrace(XX)), t)), RInt(GramDet(XX)))

\* every non-zero eigenvalue of X^T X lies in [lo, hi]: of a singular
\* X^T X the only non-zero eigenvalue is the trace; otherwise both roots of
\* the characteristic polynomial lie in the interval iff the polynomial is
\* not negative at its ends and half the trace lies between them
EigenWithin(XX, lo, hi) ==
    IF GramDet(XX) = 0
    THEN RLe(lo, RInt(GramTrace(XX))) /\ RLe(RInt(GramTrace(XX)), hi)
    ELSE /\ RLe(Zero, CharPoly(XX, lo)) /\ RLe(Zero, CharPoly(XX, hi))
         /\ RLe(RMul(Two, lo), RInt(GramTrace(XX)))
         /\ RLe(RInt(GramTrace(XX)), RMul(Two, hi))

\* |1 - a*(2/n)*mu| <= s for every non-zero eigenvalue mu of X^T X, a > 0
ContractsBy(XX, a, s) ==
    LET c == RMul(a, Rat(2, Len(XX)))
    IN  EigenWithin(XX, RDiv(RSub(One, s), c), RDiv(RAdd(One, s), c))

\* contraction factors below 1
Rates == {<<1, 2>>, <<3, 4>>, <<7, 8>>, <<15, 16>>, <<31, 32>>}

\* g - a*(2/n) X^T X g
GradientMap(XX, a, g) ==
    LET c == RMul(a, Rat(2, Len(XX)))
    IN  <<RSub(g[1], RMul(c, RAdd(RMul(RInt(Gram(XX, 1, 1, Len(XX))), g[1]),
                                  RMul(RInt(Gram(XX, 1, 2, Len(XX))), g[2])))),
          RSub(g[2], RMul(c, RAdd(RMul(RInt(Gram(XX, 2, 1, Len(XX))), g[1]),
                                  RMul(RInt(Gram(XX, 2, 2, Len(XX))), g[2]))))>>

\* 0 < alpha <= 2/lambda_max((2/n) X^T X), and the same with <
RateStable == RLt(Zero, alpha) /\ ~NormTimesAbove(X, alpha, Len(X))
RateStrictlyStable == RLt(Zero, alpha) /\ NormTimesBelow(X, alpha, Len(X))

\* C24: with 0 < alpha <= 2/lambda_max the gradient of each pass is
\* (I - alpha*(2/n) X^T X) applied to that of the pass before and the
\* statistic never increases from a pass to a later one; with
\* 0 < alpha < 2/lambda_max there is a factor s < 1, fixed by X and alpha,
\* such that the statistic of each pass is at most s^2 times that of the
\* pass before, so it falls below any tol > 0 after enough passes.
C24_StableStatShrinks ==
    (Passes >= 1 /\ RateStable) =>
        /\ \A k \in 1..(Passes - 1) :
              /\ GradAt(X, y, hist[k + 1].b) =
                    GradientMap(X, alpha, GradAt(X, y, hist[k].b))
              /\ \A j \in 1..k : RLe(PassStat(k + 1), PassStat(j))
        /\ RateStrictlyStable =>
              \E s \in Rates :
                  /\ ContractsBy(X, alpha, s)
                  /\ \A k \in 1..(Passes - 1) :
                        RLe(PassStat(k + 1), RMul(RSq(s), PassStat(k)))
C24_Witness ==
    /\ pc = "done" /\ Passes >= 3 /\ RateStrictlyStable /\ RLt(Zero, tol)
    /\ exit = "CONVERGED" /\ GramDet(X) # 0
    /\ \A k \in 1..(Passes - 1) : RLt(PassStat(k + 1), PassStat(k))

\* The cell executed in a fresh kernel on the given inputs, from the pass
\* of index k with estimate b on: the exit, the index of the last pass, the
\* estimate held at the end and the result (none when exhausted).
RECURSIVE RunFrom(_, _, _, _, _, _, _)
RunFrom(XX, yy, a, t, m, b, k) ==
    IF ~HasNext(k, m)
    THEN [exit |-> "EXHAUSTED", last |-> k - 1, estimate |-> b, result |-> Unbound]
    ELSE LET new == Update(XX, yy, a, b)
         IN  IF BelowTol(new, b, t)
             THEN [exit |-> "CONVERGED", last |-> k, estimate |-> b,
                   result |-> Result(new, b)]
             ELSE RunFrom(XX, yy, a, t, m, NextEstimate(new, b), k + 1)

\* C25: a run ends and reports as any other run with the same X, y, alpha,
\* tol, max_iter and initial guess does, in particular as the run on these
\* inputs in a fresh kernel: same exit at the same pass, same estimate,
\* same reported result.
C25_SameInputsSameReport ==
    (pc = "done" /\ max_iter >= 1) =>
        LET r == RunFrom(X, y, alpha, tol, max_iter, InitialGuess, 0)
        IN  /\ exit = r.exit
            /\ i = r.last
            /\ beta_star = r.estimate
            /\ out.error <=> (r.result = Unbound)
            /\ out.beta = r.result

====
